---- MODULE Spec2Model ----
(***************************************************************************)
(* Model of the document field-extraction services app.py (bank           *)
(* documents, route /extract_bank) and aadhar_app.py (identity documents, *)
(* route /extract_aadhaar).                                                *)
(*                                                                         *)
(* Text is a sequence of one-character strings.  A record returned to the *)
(* caller is a function from field names to JSON values.                  *)
(***************************************************************************)
EXTENDS Integers, Sequences, FiniteSets, TLC

\* ------------------------------------------------------------------------
\* Characters (Python str predicates and the re module's classes)
\* ------------------------------------------------------------------------

UpperChars ==
  <<"A","B","C","D","E","F","G","H","I","J","K","L","M",
    "N","O","P","Q","R","S","T","U","V","W","X","Y","Z">>

LowerChars ==
  <<"a","b","c","d","e","f","g","h","i","j","k","l","m",
    "n","o","p","q","r","s","t","u","v","w","x","y","z">>

Range(f) == {f[i] : i \in DOMAIN f}

UpperSet == Range(UpperChars)

LowerSet == Range(LowerChars)

Letters == UpperSet \cup LowerSet

Digits == {"0","1","2","3","4","5","6","7","8","9"}

\* the characters \s matches
Spaces == {" ", "\n", "\t"}

\* the other characters texts of the model are written in
Punct == {":", "/", ".", "|", "_", "&", ",", "-"}

Alphabet == Letters \cup Digits \cup Spaces \cup Punct

\* the characters \w matches
WordChars == Letters \cup Digits \cup {"_"}

UpperMap ==
  [c \in Alphabet |->
     IF c \in LowerSet
       THEN UpperChars[CHOOSE i \in 1..26 : LowerChars[i] = c]
       ELSE c]

LowerMap ==
  [c \in Alphabet |->
     IF c \in UpperSet
       THEN LowerChars[CHOOSE i \in 1..26 : UpperChars[i] = c]
       ELSE c]

\* str.upper()
upper(s) == [i \in 1..Len(s) |-> UpperMap[s[i]]]

\* str.lower()
lower(s) == [i \in 1..Len(s) |-> LowerMap[s[i]]]

\* str.isalpha(): non-empty and every character a letter
isalpha(s) == Len(s) > 0 /\ \A i \in 1..Len(s) : s[i] \in Letters

\* ------------------------------------------------------------------------
\* Strings
\* ------------------------------------------------------------------------

RECURSIVE lstrip(_)
lstrip(s) ==
  IF s = <<>> THEN s
  ELSE IF Head(s) \in Spaces THEN lstrip(Tail(s)) ELSE s

RECURSIVE rstrip(_)
rstrip(s) ==
  IF s = <<>> THEN s
  ELSE IF s[Len(s)] \in Spaces THEN rstrip(SubSeq(s, 1, Len(s) - 1)) ELSE s

\* str.strip()
strip(s) == rstrip(lstrip(s))

\* the least element of a non-empty set of integers
Min(S) == CHOOSE x \in S : \A y \in S : x <= y

\* sep.join(parts), halving the list so that the recursion stays shallow
RECURSIVE join(_, _)
join(sep, parts) ==
  IF parts = <<>> THEN <<>>
  ELSE IF Len(parts) = 1 THEN parts[1]
  ELSE LET h == Len(parts) \div 2
       IN  join(sep, SubSeq(parts, 1, h)) \o sep \o join(sep, SubSeq(parts, h + 1, Len(parts)))

\* the length of the run of characters of cls that starts at position pos
RECURSIVE RunLen(_, _, _)
RunLen(s, pos, cls) ==
  IF pos > Len(s) \/ s[pos] \notin cls THEN 0
  ELSE 1 + RunLen(s, pos + 1, cls)

\* re.sub(r'[cls]+', rep, s): every maximal run of cls becomes rep (the
\* first character of a run becomes rep, the others vanish)
SubRuns(s, cls, rep) ==
  join(<<>>, [i \in 1..Len(s) |->
                IF s[i] \notin cls THEN <<s[i]>>
                ELSE IF i > 1 /\ s[i - 1] \in cls THEN <<>> ELSE rep])

\* re.sub(r'[^keep]', rep, s): every single character outside keep becomes rep
SubEachNotIn(s, keep, rep) ==
  join(<<>>, [i \in 1..Len(s) |-> IF s[i] \in keep THEN <<s[i]>> ELSE rep])

\* re.sub(r'\s+', ' ', s)
CollapseWs(s) == SubRuns(s, Spaces, <<" ">>)

\* str.split(): the maximal runs of non-whitespace characters
RECURSIVE split(_)
split(s) ==
  LET t == lstrip(s)
      n == RunLen(t, 1, Alphabet \ Spaces)
  IN  IF t = <<>> THEN <<>>
      ELSE <<SubSeq(t, 1, n)>> \o split(SubSeq(t, n + 1, Len(t)))

\* the first position >= pos where sub occurs in s, 0 when there is none
find(s, sub, pos) ==
  LET hits == {p \in pos..(Len(s) - Len(sub) + 1) : SubSeq(s, p, p + Len(sub) - 1) = sub}
  IN  IF hits = {} THEN 0 ELSE Min(hits)

\* sub in s
Contains(s, sub) == find(s, sub, 1) # 0

\* str.split(sep) for a non-empty separator
RECURSIVE splitOn(_, _)
splitOn(s, sep) ==
  LET p == find(s, sep, 1)
  IN  IF p = 0 THEN <<s>>
      ELSE <<SubSeq(s, 1, p - 1)>> \o splitOn(SubSeq(s, p + Len(sep), Len(s)), sep)

\* ------------------------------------------------------------------------
\* Regular expressions (the subset of Python's re the two services use)
\*
\* A pattern is a sequence of items, matched left to right with greedy
\* quantifiers and backtracking, as re does:
\*   cls    a character class repeated lo..hi times (hi = -1: unbounded)
\*   b      the word boundary \b
\*   open   the start of the capture group, close its end
\*   alt    an alternation of literal strings, tried in order
\* A position is the index of the next character to read; a match is the
\* record [start, end, gs, ge]: it covers start..end-1 and its group
\* gs..ge-1 (gs = 0: the pattern has no group); start = 0 means no match.
\* ------------------------------------------------------------------------

Cls(set, lo, hi) == [k |-> "cls", set |-> set, lo |-> lo, hi |-> hi]

WordB == [k |-> "b"]

GOpen == [k |-> "open"]

GClose == [k |-> "close"]

Alt(alts) == [k |-> "alt", alts |-> alts]

\* a class under re.IGNORECASE
IC(set) == set \cup {UpperMap[c] : c \in set} \cup {LowerMap[c] : c \in set}

\* a literal under re.IGNORECASE
LitIC(s) == [i \in 1..Len(s) |-> Cls(IC({s[i]}), 1, 1)]

NoMatch == [start |-> 0, end |-> -1, gs |-> 0, ge |-> 0]

\* \b holds at pos: exactly one of the characters around it is a word character
IsBoundary(s, pos) ==
  (pos > 1 /\ s[pos - 1] \in WordChars) # (pos <= Len(s) /\ s[pos] \in WordChars)

RECURSIVE MatchAt(_, _, _, _)
RECURSIVE TryCount(_, _, _, _, _)
RECURSIVE TryAlt(_, _, _, _, _)

\* the match of items i.. of pat that starts at pos, taking k repetitions of
\* item i or, failing that, fewer
TryCount(pat, i, s, pos, k) ==
  IF k < pat[i].lo THEN NoMatch
  ELSE LET r == MatchAt(pat, i + 1, s, pos + k)
       IN  IF r.end # -1 THEN r ELSE TryCount(pat, i, s, pos, k - 1)

\* the match of items i.. of pat that starts at pos, taking alternative a of
\* item i or, failing that, a later one
TryAlt(pat, i, s, pos, a) ==
  IF a > Len(pat[i].alts) THEN NoMatch
  ELSE LET lit == pat[i].alts[a]
           r   == IF pos + Len(lit) - 1 <= Len(s) /\ SubSeq(s, pos, pos + Len(lit) - 1) = lit
                    THEN MatchAt(pat, i + 1, s, pos + Len(lit))
                    ELSE NoMatch
       IN  IF r.end # -1 THEN r ELSE TryAlt(pat, i, s, pos, a + 1)

MatchAt(pat, i, s, pos) ==
  IF i > Len(pat) THEN [start |-> 0, end |-> pos, gs |-> 0, ge |-> 0]
  ELSE LET it == pat[i] IN
    CASE it.k = "cls" ->
           LET n == RunLen(s, pos, it.set)
           IN  TryCount(pat, i, s, pos, IF it.hi >= 0 /\ n > it.hi THEN it.hi ELSE n)
      [] it.k = "b" ->
           IF IsBoundary(s, pos) THEN MatchAt(pat, i + 1, s, pos) ELSE NoMatch
      [] it.k = "open" ->
           LET r == MatchAt(pat, i + 1, s, pos)
           IN  IF r.end = -1 THEN r ELSE [r EXCEPT !.gs = pos]
      [] it.k = "close" ->
           LET r == MatchAt(pat, i + 1, s, pos)
           IN  IF r.end = -1 THEN r ELSE [r EXCEPT !.ge = pos]
      [] it.k = "alt" -> TryAlt(pat, i, s, pos, 1)

\* re.search from position pos on: the leftmost match
SearchFrom(pat, s, pos) ==
  LET hits == {p \in pos..(Len(s) + 1) : MatchAt(pat, 1, s, p).end # -1}
  IN  IF hits = {} THEN NoMatch
      ELSE [MatchAt(pat, 1, s, Min(hits)) EXCEPT !.start = Min(hits)]

\* re.search(pat, s)
search(pat, s) == SearchFrom(pat, s, 1)

\* re.match(pat, s) succeeds
match(pat, s) == MatchAt(pat, 1, s, 1).end # -1

\* match.group()
group(s, m) == SubSeq(s, m.start, m.end - 1)

\* re.findall(pat, s)[0]: the group of the leftmost match when the pattern
\* has one, the whole match otherwise
FirstFound(s, m) ==
  IF m.gs # 0 THEN SubSeq(s, m.gs, m.ge - 1) ELSE group(s, m)

\* re.sub(pat, '', s) for a pattern that matches no empty string
RECURSIVE SubDeleteFrom(_, _, _)
SubDeleteFrom(pat, s, pos) ==
  LET m == SearchFrom(pat, s, pos)
  IN  IF m.start = 0 THEN SubSeq(s, pos, Len(s))
      ELSE SubSeq(s, pos, m.start - 1) \o SubDeleteFrom(pat, s, m.end)

SubDelete(pat, s) == SubDeleteFrom(pat, s, 1)

\* [x for x in ss if x]
NonEmpties(ss) == SelectSeq(ss, LAMBDA x : x # <<>>)

\* the first non-empty string of a list of strings, "" when there is none
FirstNonEmpty(ss) == IF NonEmpties(ss) = <<>> THEN <<>> ELSE Head(NonEmpties(ss))

\* any(keyword in s for keyword in keywords)
AnyIn(keywords, s) == \E i \in 1..Len(keywords) : Contains(s, keywords[i])

\* ------------------------------------------------------------------------
\* Python values: a str, a number, None, a list or a dict
\* ------------------------------------------------------------------------

Str(s) == [t |-> "str", s |-> s]

Num(n) == [t |-> "num", n |-> n]

None == [t |-> "none"]

List(items) == [t |-> "list", items |-> items]

Dict(f) == [t |-> "dict", f |-> f]

\* the sentinel "Not Available"
NotAvailable == <<"N","o","t"," ","A","v","a","i","l","a","b","l","e">>

\* a or "Not Available"
OrNotAvailable(a) == IF a # <<>> THEN a ELSE NotAvailable

\* ------------------------------------------------------------------------
\* app.py: the rule-based extractor of bank documents
\* ------------------------------------------------------------------------

\* re.sub(r'[|]+', ' ', re.sub(r'\s+', ' ', text)), then re.sub(r'_+', ' ', .)
preprocess_clean(text) ==
  SubRuns(SubRuns(CollapseWs(text), {"|"}, <<" ">>), {"_"}, <<" ">>)

\* the stripped lines of the cleaned text that are longer than 2
preprocess_lines(clean) ==
  LET raw == splitOn(clean, <<"\n">>)
      kept(l) == IF strip(l) # <<>> /\ Len(strip(l)) > 2 THEN strip(l) ELSE <<>>
  IN  NonEmpties([i \in 1..Len(raw) |-> kept(raw[i])])

preprocess_bank_text(text) ==
  [lines |-> preprocess_lines(preprocess_clean(text)),
   text  |-> preprocess_clean(text)]

\* [:\s]*
ColonSpaces == Cls({":"} \cup Spaces, 0, -1)

\* \d{lo,hi}
D(lo, hi) == Cls(Digits, lo, hi)

\* keyword[:\s]*(body)
Anchored(keyword, body) ==
  LitIC(keyword) \o <<ColonSpaces, GOpen>> \o body \o <<GClose>>

\* [A-Z]{4}0[A-Z0-9]{6}
IfscBody == <<Cls(IC(UpperSet), 4, 4), Cls({"0"}, 1, 1), Cls(IC(UpperSet) \cup Digits, 6, 6)>>

\* [A-Z]{5}\d{4}[A-Z]
PanBody == <<Cls(IC(UpperSet), 5, 5), D(4, 4), Cls(IC(UpperSet), 1, 1)>>

\* [6-9]\d{9}
PhoneBody == <<Cls({"6","7","8","9"}, 1, 1), D(9, 9)>>

\* the pattern lists of app.py, each in the order the source tries it
patterns ==
  [ifsc_code |->
     << <<WordB>> \o IfscBody \o <<WordB>>,
        Anchored(<<"I","F","S","C">>, IfscBody),
        Anchored(<<"I","F","S">>, IfscBody) >>,
   account_number |->
     << <<WordB, D(9, 18), WordB>>,
        Anchored(<<"A","/","C">>, <<D(9, 18)>>),
        Anchored(<<"A","C","C","O","U","N","T">>, <<D(9, 18)>>),
        Anchored(<<"A","C","C">>, <<D(9, 18)>>) >>,
   pan_number |->
     << <<WordB>> \o PanBody \o <<WordB>>,
        Anchored(<<"P","A","N">>, PanBody) >>,
   phone_number |->
     << <<WordB>> \o PhoneBody \o <<WordB>>,
        Anchored(<<"M","O","B","I","L","E">>, PhoneBody),
        Anchored(<<"P","H","O","N","E">>, PhoneBody),
        Anchored(<<"M","O","B">>, PhoneBody) >>,
   cif |->
     << Anchored(<<"C","I","F">>, <<D(8, 12)>>),
        LitIC(<<"C","U","S","T","O","M","E","R">>) \o <<ColonSpaces>> \o Anchored(<<"I","D">>, <<D(8, 12)>>),
        Anchored(<<"I","D">>, <<D(8, 12)>>) >>]

\* the value of the first pattern of the list, from i on, that matches;
\* "" when none does (the field stays out of `extracted`)
RECURSIVE FirstPattern(_, _, _)
FirstPattern(pattern_list, clean_text, i) ==
  IF i > Len(pattern_list) THEN <<>>
  ELSE LET m == search(pattern_list[i], clean_text)
       IN  IF m.start # 0 THEN FirstFound(clean_text, m)
           ELSE FirstPattern(pattern_list, clean_text, i + 1)

\* extracted.get(field, 'Not Available')
extracted_get(field, clean_text) ==
  OrNotAvailable(FirstPattern(patterns[field], clean_text, 1))

bank_keywords == <<<<"B","A","N","K">>, <<"B","A","N","K","I","N","G">>, <<"F","I","N","A","N","C","I","A","L">>, <<"C","O","O","P","E","R","A","T","I","V","E">>, <<"C","R","E","D","I","T">>, <<"U","N","I","O","N">>>>

skip_keywords ==
  <<<<"B","A","N","K">>, <<"S","T","A","T","E","M","E","N","T">>, <<"A","C","C","O","U","N","T">>, <<"P","A","S","S","B","O","O","K">>, <<"B","R","A","N","C","H">>, <<"A","D","D","R","E","S","S">>, <<"P","H","O","N","E">>, <<"M","O","B","I","L","E">>, <<"I","F","S","C">>, <<"C","O","D","E">>>>

branch_keywords == <<<<"B","R","A","N","C","H">>, <<"B","R",".">>, <<"O","F","F","I","C","E">>>>

address_keywords == <<<<"A","D","D","R","E","S","S">>, <<"A","D","D","R">>, <<"R","E","S","I","D","E","N","C","E">>, <<"P","I","N">>, <<"P","I","N","C","O","D","E">>>>

nominee_keywords == <<<<"N","O","M","I","N","E","E">>, <<"N","O","M","I","N","Y">>, <<"B","E","N","E","F","I","C","I","A","R","Y">>>>

\* the number of leading lines searched for the bank name
BankNameLines == 10

\* re.sub(r'\s+', ' ', re.sub(r'[^A-Za-z\s]', ' ', line)).strip()
LettersOnly(line) ==
  strip(CollapseWs(SubEachNotIn(line, Letters \cup Spaces, <<" ">>)))

\* the bank name a line gives, "" when it gives none
bank_line(line) ==
  LET b == strip(CollapseWs(SubEachNotIn(line, Letters \cup Spaces \cup {"&"}, <<" ">>)))
  IN  IF AnyIn(bank_keywords, upper(line)) /\ Len(b) > 5 THEN b ELSE <<>>

bank_name(lines) ==
  FirstNonEmpty([i \in 1..(IF Len(lines) < BankNameLines THEN Len(lines) ELSE BankNameLines)
                   |-> bank_line(lines[i])])

\* the holder name a line gives, "" when it gives none
customer_line(line) ==
  LET c == LettersOnly(line)
  IN  IF /\ c # <<>>
         /\ Len(split(c)) >= 2
         /\ Len(split(c)) <= 4
         /\ ~AnyIn(skip_keywords, upper(c))
         /\ \A i \in 1..Len(c) : c[i] \notin Digits
         /\ Len(c) > 5
        THEN c ELSE <<>>

customer_name(lines) == FirstNonEmpty([i \in 1..Len(lines) |-> customer_line(lines[i])])

\* the branch name a line gives, "" when it gives none
branch_line(line) ==
  LET b == LettersOnly(line)
  IN  IF /\ AnyIn(branch_keywords, upper(line))
         /\ Contains(upper(b), <<"B","R","A","N","C","H">>)
         /\ Len(b) > 10
        THEN b ELSE <<>>

branch_name(lines) == FirstNonEmpty([i \in 1..Len(lines) |-> branch_line(lines[i])])

\* the address part a line gives, "" when it gives none
addr_line(line) ==
  LET a == strip(SubDelete(LitIC(<<"A","D","D","R","E","S","S">>) \o <<ColonSpaces>>, line))
  IN  IF AnyIn(address_keywords, upper(line)) /\ a # <<>> /\ Len(a) > 5 THEN a ELSE <<>>

address(lines) ==
  join(<<" ">>, NonEmpties([i \in 1..Len(lines) |-> addr_line(lines[i])]))

\* the nominee a line gives, "" when it gives none
nominee_line(line) ==
  LET n == LettersOnly(SubDelete(LitIC(<<"N","O","M","I","N","E","E">>) \o <<ColonSpaces>>, line))
  IN  IF AnyIn(nominee_keywords, upper(line)) /\ n # <<>> /\ Len(n) > 3 THEN n ELSE <<>>

nominee(lines) == FirstNonEmpty([i \in 1..Len(lines) |-> nominee_line(lines[i])])

extract_bank_data_locally(text) ==
  LET pre == preprocess_bank_text(text)
  IN  Dict([bank_name    |-> Str(OrNotAvailable(bank_name(pre.lines))),
            branch_name  |-> Str(OrNotAvailable(branch_name(pre.lines))),
            ifsc_code    |-> Str(extracted_get("ifsc_code", pre.text)),
            name         |-> Str(OrNotAvailable(customer_name(pre.lines))),
            pan_no       |-> Str(extracted_get("pan_number", pre.text)),
            cif          |-> Str(extracted_get("cif", pre.text)),
            phone_number |-> Str(extracted_get("phone_number", pre.text)),
            account      |-> Str(extracted_get("account_number", pre.text)),
            nominee      |-> Str(OrNotAvailable(nominee(pre.lines))),
            address      |-> Str(OrNotAvailable(address(pre.lines)))])

\* ------------------------------------------------------------------------
\* aadhar_app.py: the rule-based extractor of identity documents
\* ------------------------------------------------------------------------

\* \d{4}\s?\d{4}\s?\d{4}
AadhaarBody == <<D(4, 4), Cls(Spaces, 0, 1), D(4, 4), Cls(Spaces, 0, 1), D(4, 4)>>

aadhaar_patterns ==
  [aadhaar_number |-> <<WordB>> \o AadhaarBody \o <<WordB>>,
   date_of_birth  |-> <<WordB, D(2, 2), Cls({"/"}, 1, 1), D(2, 2), Cls({"/"}, 1, 1), D(4, 4), WordB>>,
   gender         |-> <<WordB, Alt(<<<<"M","A","L","E">>, <<"F","E","M","A","L","E">>, <<"M","a","l","e">>, <<"F","e","m","a","l","e">>, <<"M">>, <<"F">>>>), WordB>>]

\* extracted.get(field, ''): match.group() of re.search, '' without a match
aadhaar_get(field, text) ==
  LET m == search(aadhaar_patterns[field], text)
  IN  IF m.start # 0 THEN group(text, m) ELSE <<>>

headers == <<<<"G","O","V","E","R","N","M","E","N","T">>, <<"I","N","D","I","A">>, <<"A","A","D","H","A","A","R">>, <<"U","N","I","Q","U","E">>, <<"I","D","E","N","T","I","F","I","C","A","T","I","O","N">>, <<"A","U","T","H","O","R","I","T","Y">>, <<"O","F">>>>

\* the words kept as name candidates
clean_words(words) ==
  LET kept(w) == IF upper(w) \notin Range(headers) /\ isalpha(w) /\ Len(w) > 2 THEN w ELSE <<>>
  IN  NonEmpties([i \in 1..Len(words) |-> kept(words[i])])

\* the number of leading candidate words joined into the name
NameWords == 3

\* the number of trailing words the address is built from
AddressWords == 10

\* seq[:n]
Take(seq, n) == SubSeq(seq, 1, IF Len(seq) < n THEN Len(seq) ELSE n)

\* seq[-n:]
Last(seq, n) == SubSeq(seq, IF Len(seq) > n THEN Len(seq) - n + 1 ELSE 1, Len(seq))

aadhaar_name(words) == join(<<" ">>, Take(clean_words(words), NameWords))

\* the last words of the text that do not start like an identifier number
address_words(words) ==
  LET kept(w) == IF ~match(AadhaarBody, w) THEN w ELSE <<>>
      tail == Last(words, AddressWords)
  IN  NonEmpties([i \in 1..Len(tail) |-> kept(tail[i])])

extract_aadhaar_data_locally(text0) ==
  LET text  == CollapseWs(text0)
      words == split(text)
  IN  Dict([name           |-> Str(aadhaar_name(words)),
            aadhaar_number |-> Str(aadhaar_get("aadhaar_number", text)),
            date_of_birth  |-> Str(aadhaar_get("date_of_birth", text)),
            gender         |-> Str(aadhaar_get("gender", text)),
            address        |-> Str(join(<<" ">>, address_words(words)))])

\* ------------------------------------------------------------------------
\* Uploaded files: names, images and the shared upload folder
\* ------------------------------------------------------------------------

ALLOWED_EXTENSIONS ==
  [bank    |-> {<<"p","n","g">>, <<"j","p","g">>, <<"j","p","e","g">>, <<"g","i","f">>, <<"b","m","p">>, <<"w","e","b","p">>, <<"p","d","f">>},
   aadhaar |-> {<<"p","n","g">>, <<"j","p","g">>, <<"j","p","e","g">>, <<"g","i","f">>, <<"b","m","p">>, <<"w","e","b","p">>}]

\* filename.rsplit('.', 1)[1]
Extension(filename) == LET parts == splitOn(filename, <<".">>) IN parts[Len(parts)]

allowed_file(svc, filename) ==
  Contains(filename, <<".">>) /\ lower(Extension(filename)) \in ALLOWED_EXTENSIONS[svc]

\* str.strip(chars)
RECURSIVE stripChars(_, _)
stripChars(s, chars) ==
  IF s = <<>> THEN s
  ELSE IF Head(s) \in chars THEN stripChars(Tail(s), chars)
  ELSE IF s[Len(s)] \in chars THEN stripChars(SubSeq(s, 1, Len(s) - 1), chars)
  ELSE s

\* werkzeug's secure_filename: path separators become spaces, the words are
\* joined by "_", characters outside [A-Za-z0-9_.-] are dropped and leading
\* and trailing "." and "_" are stripped
secure_filename(filename) ==
  LET spaced == SubEachNotIn(filename, Alphabet \ {"/"}, <<" ">>)
      joined == join(<<"_">>, split(spaced))
      kept   == SelectSeq(joined, LAMBDA c : c \in Letters \cup Digits \cup {"_", ".", "-"})
  IN  stripChars(kept, {".", "_"})

\* what the upload folder holds at a path where no file is
NoFile == "nofile"

\* an image the OCR reads: the text spans it detects, in order
Image(spans) == [ok |-> TRUE, spans |-> spans]

\* an image reader.readtext raises on
Corrupt == [ok |-> FALSE, spans |-> <<>>]

\* the images of the model, by name: two bank documents, an identity
\* document, an image the OCR detects nothing in, and a corrupt one
Images ==
  [bank_doc  |-> Image(<< <<"S","T","A","T","E"," ","B","A","N","K"," ","O","F"," ","I","N","D","I","A">>, <<"I","F","S","C",":"," ","S","B","I","N","0","1","2","3","4","5","6"," ","W","X","Y","Z","0","6","5","4","3","2","1">>,
                          <<"A","/","C",":"," ","1","2","3","4","5","6","7","8","9","0","1","2">> >>),
   bank_doc2 |-> Image(<< <<"S","i","t","a"," ","D","e","v","i">>, <<"P","A","N"," ","A","B","C","D","E","1","2","3","4","F"," ","M","o","b","i","l","e"," ","9","8","7","6","5","4","3","2","1","0">> >>),
   id_doc    |-> Image(<< <<"R","A","M","E","S","H"," ","K","U","M","A","R"," ","S","/","O"," ","S","U","R","E","S","H"," ","K","U","M","A","R">>, <<"D","O","B"," ","0","1","/","0","1","/","1","9","9","0"," ","M","A","L","E">>,
                          <<"1","2","3","4"," ","5","6","7","8"," ","9","0","1","2">> >>),
   blank     |-> Image(<<>>),
   corrupt   |-> Corrupt]

\* reader.readtext(path) and " ".join(detection[1] ...): the record
\* [ok, text]; a missing or corrupt file makes readtext raise
readtext(content) ==
  IF content # NoFile /\ Images[content].ok
    THEN [ok |-> TRUE, text |-> join(<<" ">>, Images[content].spans)]
    ELSE [ok |-> FALSE, text |-> <<>>]

File(filename, image) == [filename |-> filename, image |-> image]

\* the files a request may carry
FileChoices ==
  { File(<<"a",".","p","n","g">>, "bank_doc"),
    File(<<".",".","/","a",".","p","n","g">>, "id_doc"),
    File(<<"b",".","P","D","F">>, "bank_doc2"),
    File(<<"c",".","t","x","t">>, "bank_doc"),
    File(<<"d",".","p","n","g">>, "corrupt"),
    File(<<"e",".","g","i","f">>, "blank"),
    File(<<>>, "blank") }

\* the most files one request carries
MaxFiles == 2

\* the sequences of at most n elements of S
SeqUpTo(S, n) == UNION {[1..k -> S] : k \in 0..n}

\* a request: whether the form has the images field, and the files in it
RequestInputs ==
  {[has_field |-> FALSE, files |-> <<>>]}
    \cup {[has_field |-> TRUE, files |-> fs] : fs \in SeqUpTo(FileChoices, MaxFiles) \ {<<>>}}

\* the paths the upload folder can hold
Paths == {secure_filename(f.filename) : f \in {g \in FileChoices : g.filename # <<>>}}

\* ------------------------------------------------------------------------
\* The model backend's reply and its parsing
\*
\* A reply is a sequence of tokens: the fence ```, the tag json, white
\* space, prose (text that is no JSON) and a JSON document (by its value).
\* ------------------------------------------------------------------------

Fence == [k |-> "fence"]

Tag == [k |-> "tag"]

Ws == [k |-> "ws"]

Prose == [k |-> "prose"]

Doc(v) == [k |-> "doc", v |-> v]

\* str.strip() of a reply
RECURSIVE stripTokens(_)
stripTokens(toks) ==
  IF toks = <<>> THEN toks
  ELSE IF Head(toks) = Ws THEN stripTokens(Tail(toks))
  ELSE IF toks[Len(toks)] = Ws THEN stripTokens(SubSeq(toks, 1, Len(toks) - 1))
  ELSE toks

\* the positions of the fences of a reply, and of those followed by the tag
FencePositions(toks) == {i \in 1..Len(toks) : toks[i] = Fence}

JsonFencePositions(toks) ==
  {i \in FencePositions(toks) : i < Len(toks) /\ toks[i + 1] = Tag}

\* the tokens from position from up to the next fence or the end
UpToFence(toks, from) ==
  LET later == {i \in FencePositions(toks) : i >= from}
  IN  SubSeq(toks, from, IF later = {} THEN Len(toks) ELSE Min(later) - 1)

\* the text handed to json.loads: what follows the first ```json up to the
\* next fence; else what lies between the first two fences; else the reply
Unfenced(llm_response) ==
  IF JsonFencePositions(llm_response) # {}
    THEN stripTokens(UpToFence(llm_response, Min(JsonFencePositions(llm_response)) + 2))
  ELSE IF FencePositions(llm_response) # {}
    THEN stripTokens(UpToFence(llm_response, Min(FencePositions(llm_response)) + 1))
  ELSE llm_response

\* json.loads: a value for one document with white space around it, a
\* JSONDecodeError for anything else
loads(toks) ==
  LET body == stripTokens(toks)
  IN  IF Len(body) = 1 /\ body[1].k = "doc"
        THEN [ok |-> TRUE, value |-> body[1].v]
        ELSE [ok |-> FALSE, value |-> None]

\* lines 353-370 of app.py, 199-216 of aadhar_app.py: the value parsed from
\* the reply, None after a JSONDecodeError
parse_llm_response(content) == loads(Unfenced(stripTokens(content))).value

\* bool(value)
Truthy(v) ==
  CASE v.t = "none" -> FALSE
    [] v.t = "dict" -> DOMAIN v.f # {}
    [] v.t = "list" -> v.items # <<>>
    [] v.t = "str"  -> v.s # <<>>
    [] v.t = "num"  -> v.n # 0

\* the field sets the two services declare
Fields ==
  [bank    |-> {"bank_name", "branch_name", "ifsc_code", "name", "pan_no", "cif",
                "phone_number", "account", "nominee", "address"},
   aadhaar |-> {"name", "aadhaar_number", "date_of_birth", "gender", "address"}]

\* a complete object of the model backend in which field "name" holds v
LlmObject(svc, v) ==
  Dict([k \in Fields[svc] |-> IF k = "name" THEN v ELSE Str(<<"H","D","F","C">>)])

\* the values a reply's document may hold
LlmValues(svc) ==
  { LlmObject(svc, Str(<<"R","a","v","i"," ","K","u","m","a","r">>)),
    LlmObject(svc, Str(<<" ","R","a","v","i"," ">>)),
    LlmObject(svc, Str(<<>>)),
    LlmObject(svc, Num(7)),
    Dict([k \in Fields[svc] \ {"address"} |-> Str(<<"H","D","F","C">>)]),
    Dict([k \in Fields[svc] \cup {"notes"} |-> Str(<<"H","D","F","C">>)]),
    Dict([k \in {} |-> None]),
    List(<<Num(1)>>),
    Str(<<"H","D","F","C">>),
    Num(5),
    None }

\* the replies of the model backend
Replies(svc) ==
  {<<Doc(v)>> : v \in LlmValues(svc)}
    \cup { <<Prose>>,
           <<Prose, Doc(LlmObject(svc, Str(<<"R","a","v","i"," ","K","u","m","a","r">>)))>>,
           <<Prose, Ws, Fence, Tag, Ws, Doc(LlmObject(svc, Str(<<"R","a","v","i"," ","K","u","m","a","r">>))), Ws, Fence, Ws, Prose>>,
           <<Fence, Ws, Doc(LlmObject(svc, Str(<<" ","R","a","v","i"," ">>))), Ws, Fence>>,
           <<Fence, Tag, Ws, Prose, Fence>> }

\* what client.chat.completions.create does: it raises, or returns a reply
LlmOutcomes(svc) ==
  {[raised |-> TRUE, content |-> <<>>]}
    \cup {[raised |-> FALSE, content |-> c] : c \in Replies(svc)}

\* ------------------------------------------------------------------------
\* The request handlers extract_bank (app.py) and extract_aadhaar
\* (aadhar_app.py)
\* ------------------------------------------------------------------------

\* the most requests in flight at once
NumReq == 2

Req == 1..NumReq

VARIABLES
  service,          \* which of the two services this process is
  client,           \* the Groq client was initialised (client is not None)
  db,               \* the database connection exists (db is not None)
  uploads,          \* the upload folder: path -> content
  table,            \* the rows inserted into the details table
  pc,               \* where each request's handler is
  request,          \* what each request carries
  idx,              \* the position of each handler's loop over files
  combined_text,
  processed_files,
  llm_reply,        \* what the model backend did for each request
  extracted_data,
  response,         \* the response each request ended with
  llm_calls,        \* how often each request called the model backend
  local_runs,       \* how often each request ran the rule-based extractor
  produced_by,      \* which strategy assigned extracted_data last
  stored,           \* how each request's insert ended
  call,             \* a direct call of one of the text functions: the
                    \* function, its argument and what it returned
  records           \* the request in flight on the routes /get_all_records
                    \* and /delete_record of app.py

vars ==
  <<service, client, db, uploads, table, pc, request, idx, combined_text,
    processed_files, llm_reply, extracted_data, response, llm_calls,
    local_runs, produced_by, stored, call, records>>

NoRequest == [has_field |-> FALSE, files |-> <<>>]

NoReply == [raised |-> FALSE, content |-> <<>>]

NoResponse == [status |-> 0]

\* no function was called directly
NoCall == [fn |-> "none", text |-> <<>>, ret |-> None]

\* no request on the records routes has arrived
NoRecords ==
  [pc |-> "idle", route |-> "none", record_id |-> 0, fetched |-> <<>>,
   response |-> NoResponse]

\* the details table as the process's one connection has it: the rows that
\* are committed, the rows the connection sees (its open transaction
\* applied), the next AUTO_INCREMENT id, the server's CURRENT_TIMESTAMP at
\* the latest insert (0: none yet), cursor.rowcount, and the result set of a statement
\* that was executed and is not fetched yet.  The import of app.py runs
\* CREATE TABLE when it has a connection; aadhar_app.py runs no statement
EmptyTable(svc, database) ==
  [committed |-> <<>>, rows |-> <<>>, next_id |-> 1, clock |-> 0,
   rowcount |-> IF svc = "bank" /\ database THEN 0 ELSE -1,
   unread |-> FALSE, result |-> <<>>]

\* jsonify({"error": message}), status
ErrorResponse(status, message) == [status |-> status, error |-> message]

\* jsonify(extracted_data)
jsonify(data) == [status |-> 200, body |-> data]

Init ==
  /\ service \in {"bank", "aadhaar"}
  /\ client \in BOOLEAN
  /\ db \in (IF service = "bank" THEN BOOLEAN ELSE {TRUE})
  /\ uploads = [p \in Paths |-> NoFile]
  /\ table = EmptyTable(service, db)
  /\ pc = [r \in Req |-> "idle"]
  /\ request = [r \in Req |-> NoRequest]
  /\ idx = [r \in Req |-> 1]
  /\ combined_text = [r \in Req |-> <<>>]
  /\ processed_files = [r \in Req |-> <<>>]
  /\ llm_reply = [r \in Req |-> NoReply]
  /\ extracted_data = [r \in Req |-> None]
  /\ response = [r \in Req |-> NoResponse]
  /\ llm_calls = [r \in Req |-> 0]
  /\ local_runs = [r \in Req |-> 0]
  /\ produced_by = [r \in Req |-> "none"]
  /\ stored = [r \in Req |-> "no"]
  /\ call = NoCall
  /\ records = NoRecords

\* the request carries no file to look at
NoImages(req) ==
  \/ ~req.has_field
  \/ req.files = <<>>
  \/ \A i \in 1..Len(req.files) : req.files[i].filename = <<>>

\* a request arrives; without the images field, or with unnamed files only,
\* it is answered 400 at once
Receive(r, inputs) ==
  /\ pc[r] = "idle"
  /\ \E req \in inputs :
       /\ request' = [request EXCEPT ![r] = req]
       /\ IF NoImages(req)
            THEN /\ response' = [response EXCEPT ![r] =
                       ErrorResponse(400, IF req.has_field THEN "No images selected"
                                                           ELSE "No images uploaded")]
                 /\ pc' = [pc EXCEPT ![r] = "done"]
            ELSE /\ pc' = [pc EXCEPT ![r] = "loop"]
                 /\ UNCHANGED response
  /\ UNCHANGED <<call, records, service, client, db, uploads, table, idx, combined_text,
                 processed_files, llm_reply, extracted_data, llm_calls,
                 local_runs, produced_by, stored>>

\* if image and allowed_file(image.filename)
Accepted(svc, file) == file.filename # <<>> /\ allowed_file(svc, file.filename)

\* the loop passes over a file that is not accepted
SkipFile(r) ==
  /\ pc[r] = "loop"
  /\ idx[r] <= Len(request[r].files)
  /\ ~Accepted(service, request[r].files[idx[r]])
  /\ idx' = [idx EXCEPT ![r] = @ + 1]
  /\ UNCHANGED <<call, records, service, client, db, uploads, table, pc, request, combined_text,
                 processed_files, llm_reply, extracted_data, response, llm_calls,
                 local_runs, produced_by, stored>>

\* image.save(image_path): the file is written under its secured name
SaveImage(r) ==
  /\ pc[r] = "loop"
  /\ idx[r] <= Len(request[r].files)
  /\ Accepted(service, request[r].files[idx[r]])
  /\ LET file == request[r].files[idx[r]]
         image_path == secure_filename(file.filename)
     IN  /\ uploads' = [uploads EXCEPT ![image_path] = file.image]
         /\ processed_files' = [processed_files EXCEPT ![r] = Append(@, image_path)]
  /\ pc' = [pc EXCEPT ![r] = "ocr"]
  /\ UNCHANGED <<call, records, service, client, db, table, request, idx, combined_text,
                 llm_reply, extracted_data, response, llm_calls, local_runs,
                 produced_by, stored>>

\* combined_text += " " + text, unless readtext raised
AddText(text, res) == IF res.ok THEN text \o <<" ">> \o res.text ELSE text

\* reader.readtext(image_path) on what the path holds now
ReadText(r) ==
  /\ pc[r] = "ocr"
  /\ LET image_path == processed_files[r][Len(processed_files[r])]
     IN  combined_text' = [combined_text EXCEPT ![r] =
                             AddText(@, readtext(uploads[image_path]))]
  /\ idx' = [idx EXCEPT ![r] = @ + 1]
  /\ pc' = [pc EXCEPT ![r] = "loop"]
  /\ UNCHANGED <<call, records, service, client, db, uploads, table, request, processed_files,
                 llm_reply, extracted_data, response, llm_calls, local_runs,
                 produced_by, stored>>

\* a variant of NoText that forgets the strip
NoTextUnstripped(text) == text = <<>>

\* not combined_text.strip()
NoText(text) == strip(text) = <<>>

\* after the loop: 400 when no text was extracted, else on to the model
CheckText(r) ==
  /\ pc[r] = "loop"
  /\ idx[r] > Len(request[r].files)
  /\ IF NoText(combined_text[r])
       THEN /\ response' = [response EXCEPT ![r] =
                  ErrorResponse(400, "No text could be extracted from images")]
            /\ pc' = [pc EXCEPT ![r] = "done"]
       ELSE /\ pc' = [pc EXCEPT ![r] = "model"]
            /\ UNCHANGED response
  /\ UNCHANGED <<call, records, service, client, db, uploads, table, request, idx, combined_text,
                 processed_files, llm_reply, extracted_data, llm_calls,
                 local_runs, produced_by, stored>>

\* a variant of ModelData that salvages the first JSON document of a reply
\* json.loads rejects
ModelDataSalvaging(outcome) ==
  LET docs == SelectSeq(outcome.content, LAMBDA tok : tok.k = "doc")
  IN  IF outcome.raised THEN None
      ELSE IF loads(Unfenced(stripTokens(outcome.content))).ok
        THEN parse_llm_response(outcome.content)
      ELSE IF docs # <<>> THEN docs[1].v ELSE None

\* extracted_data after the model attempt: the parsed value, None when the
\* call raised or the reply is no JSON
ModelData(outcome) ==
  IF outcome.raised THEN None ELSE parse_llm_response(outcome.content)

\* if client: the one call of the model backend
CallModel(r, outcomes) ==
  /\ pc[r] = "model"
  /\ client
  /\ \E outcome \in outcomes :
       /\ llm_reply' = [llm_reply EXCEPT ![r] = outcome]
       /\ extracted_data' = [extracted_data EXCEPT ![r] = ModelData(outcome)]
       /\ produced_by' = [produced_by EXCEPT ![r] =
                            IF ModelData(outcome) # None THEN "llm" ELSE "none"]
  /\ llm_calls' = [llm_calls EXCEPT ![r] = @ + 1]
  /\ pc' = [pc EXCEPT ![r] = "fallback"]
  /\ UNCHANGED <<call, records, service, client, db, uploads, table, request, idx, combined_text,
                 processed_files, response, local_runs, stored>>

\* no client: extracted_data stays None
SkipModel(r) ==
  /\ pc[r] = "model"
  /\ ~client
  /\ pc' = [pc EXCEPT ![r] = "fallback"]
  /\ UNCHANGED <<call, records, service, client, db, uploads, table, request, idx, combined_text,
                 processed_files, llm_reply, extracted_data, response, llm_calls,
                 local_runs, produced_by, stored>>

\* the rule-based extractor of the service
extract_locally(svc, text) ==
  IF svc = "bank" THEN extract_bank_data_locally(text)
                  ELSE extract_aadhaar_data_locally(text)

\* a variant of NeedsFallback that runs the fallback whatever the model gave
AlwaysFallback(data) == TRUE

\* if not extracted_data
NeedsFallback(data) == ~Truthy(data)

\* the fallback to the rule-based extractor
Fallback(r) ==
  /\ pc[r] = "fallback"
  /\ IF NeedsFallback(extracted_data[r])
       THEN /\ extracted_data' = [extracted_data EXCEPT ![r] =
                                    extract_locally(service, combined_text[r])]
            /\ local_runs' = [local_runs EXCEPT ![r] = @ + 1]
            /\ produced_by' = [produced_by EXCEPT ![r] = "local"]
       ELSE UNCHANGED <<extracted_data, local_runs, produced_by>>
  /\ pc' = [pc EXCEPT ![r] = "clean"]
  /\ UNCHANGED <<call, records, service, client, db, uploads, table, request, idx, combined_text,
                 processed_files, llm_reply, response, llm_calls, stored>>

\* the cleaned value of one field: a str is stripped and, when that leaves
\* nothing, replaced by "Not Available"; any other value is kept
CleanValue(value) ==
  IF value.t = "str" THEN Str(OrNotAvailable(strip(value.s))) ELSE value

\* app.py lines 382-389 on a dict
CleanData(data) == Dict([key \in DOMAIN data.f |-> CleanValue(data.f[key])])

\* extracted_data.items() / extracted_data.get raise AttributeError
HasNoDictMethods(data) == data.t # "dict"

\* str(e) of the AttributeError a missing method raises, which names
\* type(value).__name__
NoAttribute(value, method) ==
  LET TypeName == CASE value.t = "str"  -> "str"
                    [] value.t = "num"  -> "int"
                    [] value.t = "none" -> "NoneType"
                    [] value.t = "list" -> "list"
                    [] value.t = "dict" -> "dict"
  IN  "'" \o TypeName \o "' object has no attribute '" \o method \o "'"

\* jsonify({"error": f"Server error: {str(e)}"}), 500
ServerError(message) == ErrorResponse(500, "Server error: " \o message)

\* app.py only: the cleaning of the fields; a value that is no dict makes
\* .items() raise, which the handler answers with 500
Clean(r) ==
  /\ pc[r] = "clean"
  /\ IF service = "bank" /\ Truthy(extracted_data[r])
       THEN IF HasNoDictMethods(extracted_data[r])
              THEN /\ response' = [response EXCEPT ![r] =
                                      ServerError(NoAttribute(extracted_data[r], "items"))]
                   /\ pc' = [pc EXCEPT ![r] = "done"]
                   /\ UNCHANGED extracted_data
              ELSE /\ extracted_data' = [extracted_data EXCEPT ![r] = CleanData(@)]
                   /\ pc' = [pc EXCEPT ![r] = "store"]
                   /\ UNCHANGED response
       ELSE /\ pc' = [pc EXCEPT ![r] = "store"]
            /\ UNCHANGED <<extracted_data, response>>
  /\ UNCHANGED <<call, records, service, client, db, uploads, table, request, idx, combined_text,
                 processed_files, llm_reply, llm_calls, local_runs, produced_by,
                 stored>>

\* the values of the INSERT statement; on a missing key app.py's
\* extracted_data.get gives "Not Available", aadhar_app.py's ""
InsertValues(svc, data) ==
  LET default == IF svc = "bank" THEN Str(NotAvailable) ELSE Str(<<>>)
  IN  [k \in Fields[svc] |-> IF k \in DOMAIN data.f THEN data.f[k] ELSE default]

\* how db.commit() or a cursor.execute may end: it runs or the database
\* raises; while a result of the connection is unread the driver raises
\* before it sends the statement ("Unread result found")
DatabaseOutcomes(t, outcomes) == IF t.unread THEN {"failed"} ELSE outcomes

\* how cursor.execute(sql, values) may end: a list or dict parameter cannot
\* be converted and raises; otherwise the statement runs or the database
\* raises
InsertOutcomes(t, values) ==
  IF \E k \in DOMAIN values : values[k].t \in {"list", "dict"}
    THEN {"failed"} ELSE DatabaseOutcomes(t, {"ok", "failed"})

\* the values CURRENT_TIMESTAMP may have at the next insert.  The server's
\* clock does not go back, and a time is kept as the rank of its second
\* among the seconds of the inserts: the second of the latest insert or a
\* later one, which is what ORDER BY created_at compares
InsertTimes(t) == IF t.clock = 0 THEN {1} ELSE {t.clock, t.clock + 1}

\* str(n) for an integer
RECURSIVE DecimalDigits(_)
DecimalDigits(n) ==
  LET digit(d) == <<"0","1","2","3","4","5","6","7","8","9">>[d + 1]
  IN  IF n < 0 THEN <<"-">> \o DecimalDigits(-n)
      ELSE IF n < 10 THEN <<digit(n)>>
      ELSE DecimalDigits(n \div 10) \o <<digit(n % 10)>>

\* what a VARCHAR or TEXT column holds for a parameter: a number is stored
\* as its decimal text, None as NULL
ColumnValue(value) ==
  IF value.t = "num" THEN Str(DecimalDigits(value.n)) ELSE value

\* cursor.execute of the INSERT: the row joins the open transaction under
\* the next id, with created_at the server's time now
ExecuteInsert(t, values, now) ==
  [t EXCEPT !.rows = Append(@, [id |-> t.next_id,
                                values |-> [k \in DOMAIN values |-> ColumnValue(values[k])],
                                created_at |-> now]),
            !.next_id = @ + 1,
            !.clock = now,
            !.rowcount = 1]

\* cursor.execute of DELETE ... WHERE id = record_id
ExecuteDelete(t, record_id) ==
  [t EXCEPT !.rows = SelectSeq(@, LAMBDA row : row.id # record_id),
            !.rowcount = Len(SelectSeq(t.rows, LAMBDA row : row.id = record_id))]

\* a cursor.execute that raised: the cursor holds no result
ExecuteRaised(t) == [t EXCEPT !.rowcount = -1]

\* db.commit(): every statement of the open transaction becomes permanent,
\* whichever request executed it
Commit(t) == [t EXCEPT !.committed = t.rows]

\* what a db.commit() that raised leaves: the transaction still open, or
\* rolled back by the server; the driver's refusal leaves it open
FailedCommit(t) == IF t.unread THEN {t} ELSE {t, [t EXCEPT !.rows = t.committed]}

\* whether the handler attempts the insert: app.py needs db and a truthy
\* extracted_data, aadhar_app.py always tries
AttemptsInsert(svc, database, data) ==
  IF svc = "bank" THEN database /\ Truthy(data) ELSE TRUE

\* values = (...), cursor.execute(sql, values); every exception is caught
\* and logged
StoreExecute(r) ==
  /\ pc[r] = "store"
  /\ IF ~AttemptsInsert(service, db, extracted_data[r])
       THEN /\ stored' = [stored EXCEPT ![r] = "skipped"]
            /\ pc' = [pc EXCEPT ![r] = "cleanup"]
            /\ UNCHANGED table
       ELSE IF HasNoDictMethods(extracted_data[r])
         THEN /\ stored' = [stored EXCEPT ![r] = "failed"]
              /\ pc' = [pc EXCEPT ![r] = "cleanup"]
              /\ UNCHANGED table
         ELSE \E result \in InsertOutcomes(table, InsertValues(service, extracted_data[r])) :
                IF result = "ok"
                  THEN /\ \E now \in InsertTimes(table) :
                            table' = ExecuteInsert(table, InsertValues(service, extracted_data[r]), now)
                       /\ pc' = [pc EXCEPT ![r] = "commit"]
                       /\ UNCHANGED stored
                  ELSE /\ table' = ExecuteRaised(table)
                       /\ stored' = [stored EXCEPT ![r] = "failed"]
                       /\ pc' = [pc EXCEPT ![r] = "cleanup"]
  /\ idx' = [idx EXCEPT ![r] = 1]
  /\ UNCHANGED <<call, records, service, client, db, uploads, request, combined_text,
                 processed_files, llm_reply, extracted_data, response, llm_calls,
                 local_runs, produced_by>>

\* a variant of StoreCommit in which a commit that raises ends the request
\* with a 500 response
StoreCommitOrFail(r) ==
  /\ pc[r] = "commit"
  /\ \E result \in DatabaseOutcomes(table, {"ok", "failed"}) :
       IF result = "ok"
         THEN /\ table' = Commit(table)
              /\ stored' = [stored EXCEPT ![r] = "ok"]
              /\ pc' = [pc EXCEPT ![r] = "cleanup"]
              /\ UNCHANGED response
         ELSE /\ table' \in FailedCommit(table)
              /\ stored' = [stored EXCEPT ![r] = "failed"]
              /\ response' = [response EXCEPT ![r] = ServerError("database error")]
              /\ pc' = [pc EXCEPT ![r] = "done"]
  /\ UNCHANGED <<call, records, service, client, db, uploads, request, idx, combined_text,
                 processed_files, llm_reply, extracted_data, llm_calls,
                 local_runs, produced_by>>

\* db.commit() on the connection all requests share; an exception is caught
\* and logged
StoreCommit(r) ==
  /\ pc[r] = "commit"
  /\ \E result \in DatabaseOutcomes(table, {"ok", "failed"}) :
       IF result = "ok"
         THEN /\ table' = Commit(table)
              /\ stored' = [stored EXCEPT ![r] = "ok"]
         ELSE /\ table' \in FailedCommit(table)
              /\ stored' = [stored EXCEPT ![r] = "failed"]
  /\ pc' = [pc EXCEPT ![r] = "cleanup"]
  /\ UNCHANGED <<call, records, service, client, db, uploads, request, idx, combined_text,
                 processed_files, llm_reply, extracted_data, response, llm_calls,
                 local_runs, produced_by>>

\* os.remove(file_path) for the next processed file; a missing file is ignored
RemoveFile(r) ==
  /\ pc[r] = "cleanup"
  /\ idx[r] <= Len(processed_files[r])
  /\ uploads' = [uploads EXCEPT ![processed_files[r][idx[r]]] = NoFile]
  /\ idx' = [idx EXCEPT ![r] = @ + 1]
  /\ UNCHANGED <<call, records, service, client, db, table, pc, request, combined_text,
                 processed_files, llm_reply, extracted_data, response, llm_calls,
                 local_runs, produced_by, stored>>

\* return jsonify(extracted_data)
Respond(r) ==
  /\ pc[r] = "cleanup"
  /\ idx[r] > Len(processed_files[r])
  /\ response' = [response EXCEPT ![r] = jsonify(extracted_data[r])]
  /\ pc' = [pc EXCEPT ![r] = "done"]
  /\ UNCHANGED <<call, records, service, client, db, uploads, table, request, idx, combined_text,
                 processed_files, llm_reply, extracted_data, llm_calls,
                 local_runs, produced_by, stored>>

\* ------------------------------------------------------------------------
\* app.py: the routes /get_all_records and /delete_record on the stored
\* records; they use the connection and the cursor of the extract requests
\* ------------------------------------------------------------------------

\* the columns of bank_details in the order of CREATE TABLE, which DESCRIBE
\* returns one row each
TableColumns ==
  <<"id", "bank_name", "branch_name", "ifsc_code", "name", "pan_no", "cif",
    "phone_number", "account", "nominee", "address", "created_at">>

\* str(e) of an exception the database driver raised
DriverMessage == "database error"

\* str(created_at) of a TIMESTAMP column: "YYYY-MM-DD HH:MM:SS", with the
\* seconds of the inserts counted from 2026-01-01 00:00:00
DatetimeText(seconds) ==
  <<"2","0","2","6","-","0","1","-","0","1"," ","0","0",":","0","0",":">> \o
    (IF seconds < 10 THEN <<"0">> ELSE <<>>) \o DecimalDigits(seconds)

\* dict(zip(columns, record)) of a fetched row, created_at replaced by its
\* str
RecordDict(columns, row) ==
  Dict([k \in Range(columns) |->
          IF k = "id" THEN Num(row.id)
          ELSE IF k = "created_at" THEN Str(DatetimeText(row.created_at))
          ELSE row.values[k]])

\* the orders SELECT * ... ORDER BY created_at DESC may return the rows in:
\* created_at has the resolution of a second, and rows of one second come
\* in any order
RecordOrders(rows) ==
  {order \in {[i \in 1..Len(rows) |-> rows[p[i]]] : p \in Permutations(1..Len(rows))} :
     \A i \in 1..Len(rows) - 1 : order[i].created_at >= order[i + 1].created_at}

\* get_all_records up to cursor.execute of its SELECT: the result waits on
\* the connection
GetAllRecords(outcomes) ==
  /\ service = "bank"
  /\ records.pc = "idle"
  /\ IF ~db
       THEN /\ records' = [records EXCEPT !.pc = "done", !.route = "get_all_records",
                             !.response = ErrorResponse(500, "Database not available")]
            /\ UNCHANGED table
       ELSE \E outcome \in DatabaseOutcomes(table, outcomes) :
              IF outcome = "ok"
                THEN /\ \E order \in RecordOrders(table.rows) :
                          table' = [table EXCEPT !.unread = TRUE, !.result = order,
                                                 !.rowcount = -1]
                     /\ records' = [records EXCEPT !.pc = "fetch_records",
                                      !.route = "get_all_records"]
                ELSE /\ table' = ExecuteRaised(table)
                     /\ records' = [records EXCEPT !.pc = "done",
                                      !.route = "get_all_records",
                                      !.response = ErrorResponse(500, DriverMessage)]
  /\ UNCHANGED <<call, service, client, db, uploads, pc, request, idx, combined_text,
                 processed_files, llm_reply, extracted_data, response, llm_calls,
                 local_runs, produced_by, stored>>

\* get_all_records: records = cursor.fetchall()
FetchRecords ==
  /\ records.pc = "fetch_records"
  /\ records' = [records EXCEPT !.pc = "describe", !.fetched = table.result]
  /\ table' = [table EXCEPT !.unread = FALSE, !.result = <<>>,
                            !.rowcount = Len(table.result)]
  /\ UNCHANGED <<call, service, client, db, uploads, pc, request, idx, combined_text,
                 processed_files, llm_reply, extracted_data, response, llm_calls,
                 local_runs, produced_by, stored>>

\* get_all_records: cursor.execute("DESCRIBE bank_details")
DescribeRecords(outcomes) ==
  /\ records.pc = "describe"
  /\ \E outcome \in DatabaseOutcomes(table, outcomes) :
       IF outcome = "ok"
         THEN /\ table' = [table EXCEPT !.unread = TRUE, !.result = TableColumns,
                                        !.rowcount = -1]
              /\ records' = [records EXCEPT !.pc = "fetch_columns"]
         ELSE /\ table' = ExecuteRaised(table)
              /\ records' = [records EXCEPT !.pc = "done", !.fetched = <<>>,
                               !.response = ErrorResponse(500, DriverMessage)]
  /\ UNCHANGED <<call, service, client, db, uploads, pc, request, idx, combined_text,
                 processed_files, llm_reply, extracted_data, response, llm_calls,
                 local_runs, produced_by, stored>>

\* get_all_records from the fetchall of the column names on: the rows as a
\* list of dicts
FetchColumns ==
  /\ records.pc = "fetch_columns"
  /\ records' = [records EXCEPT !.pc = "done", !.fetched = <<>>,
                   !.response = jsonify(List([i \in 1..Len(records.fetched) |->
                                                RecordDict(table.result, records.fetched[i])]))]
  /\ table' = [table EXCEPT !.unread = FALSE, !.result = <<>>,
                            !.rowcount = Len(table.result)]
  /\ UNCHANGED <<call, service, client, db, uploads, pc, request, idx, combined_text,
                 processed_files, llm_reply, extracted_data, response, llm_calls,
                 local_runs, produced_by, stored>>

\* delete_record(record_id) up to its cursor.execute
DeleteRecord(record_id, outcomes) ==
  /\ service = "bank"
  /\ records.pc = "idle"
  /\ IF ~db
       THEN /\ records' = [records EXCEPT !.pc = "done", !.route = "delete_record",
                             !.record_id = record_id,
                             !.response = ErrorResponse(500, "Database not available")]
            /\ UNCHANGED table
       ELSE \E outcome \in DatabaseOutcomes(table, outcomes) :
              IF outcome = "ok"
                THEN /\ table' = ExecuteDelete(table, record_id)
                     /\ records' = [records EXCEPT !.pc = "commit",
                                      !.route = "delete_record",
                                      !.record_id = record_id]
                ELSE /\ table' = ExecuteRaised(table)
                     /\ records' = [records EXCEPT !.pc = "done",
                                      !.route = "delete_record",
                                      !.record_id = record_id,
                                      !.response = ErrorResponse(500, DriverMessage)]
  /\ UNCHANGED <<call, service, client, db, uploads, pc, request, idx, combined_text,
                 processed_files, llm_reply, extracted_data, response, llm_calls,
                 local_runs, produced_by, stored>>

\* delete_record: db.commit()
DeleteCommit(outcomes) ==
  /\ records.pc = "commit"
  /\ \E outcome \in DatabaseOutcomes(table, outcomes) :
       IF outcome = "ok"
         THEN /\ table' = Commit(table)
              /\ records' = [records EXCEPT !.pc = "rowcount"]
         ELSE /\ table' \in FailedCommit(table)
              /\ records' = [records EXCEPT !.pc = "done",
                               !.response = ErrorResponse(500, DriverMessage)]
  /\ UNCHANGED <<call, service, client, db, uploads, pc, request, idx, combined_text,
                 processed_files, llm_reply, extracted_data, response, llm_calls,
                 local_runs, produced_by, stored>>

\* delete_record: the answer by what cursor.rowcount holds now
DeleteRespond ==
  /\ records.pc = "rowcount"
  /\ records' = [records EXCEPT !.pc = "done",
                   !.response = IF table.rowcount > 0
                                  THEN [status |-> 200, message |-> "Record deleted successfully"]
                                  ELSE ErrorResponse(404, "Record not found")]
  /\ UNCHANGED <<call, service, client, db, uploads, table, pc, request, idx, combined_text,
                 processed_files, llm_reply, extracted_data, response, llm_calls,
                 local_runs, produced_by, stored>>

\* the request on the records routes has been answered: its handler has
\* returned
RecordsReturn ==
  /\ records.pc = "done"
  /\ records' = NoRecords
  /\ UNCHANGED <<call, service, client, db, uploads, table, pc, request, idx, combined_text,
                 processed_files, llm_reply, extracted_data, response, llm_calls,
                 local_runs, produced_by, stored>>

\* the request has been answered: its handler has returned and its locals
\* are gone
Release(r) ==
  /\ pc[r] = "done"
  /\ pc' = [pc EXCEPT ![r] = "released"]
  /\ request' = [request EXCEPT ![r] = NoRequest]
  /\ idx' = [idx EXCEPT ![r] = 1]
  /\ combined_text' = [combined_text EXCEPT ![r] = <<>>]
  /\ processed_files' = [processed_files EXCEPT ![r] = <<>>]
  /\ llm_reply' = [llm_reply EXCEPT ![r] = NoReply]
  /\ extracted_data' = [extracted_data EXCEPT ![r] = None]
  /\ response' = [response EXCEPT ![r] = NoResponse]
  /\ llm_calls' = [llm_calls EXCEPT ![r] = 0]
  /\ local_runs' = [local_runs EXCEPT ![r] = 0]
  /\ produced_by' = [produced_by EXCEPT ![r] = "none"]
  /\ stored' = [stored EXCEPT ![r] = "no"]
  /\ UNCHANGED <<call, records, service, client, db, uploads, table>>

\* one request at a time, with every input: an extract request and, when
\* it has been answered, requests on the stored records
Next ==
  \E r \in {1} :
    \/ Receive(r, RequestInputs)
    \/ SkipFile(r)
    \/ SaveImage(r)
    \/ ReadText(r)
    \/ CheckText(r)
    \/ CallModel(r, LlmOutcomes(service))
    \/ SkipModel(r)
    \/ Fallback(r)
    \/ Clean(r)
    \/ StoreExecute(r)
    \/ StoreCommit(r)
    \/ RemoveFile(r)
    \/ Respond(r)
    \/ Release(r)
    \/ pc[r] = "released" /\ GetAllRecords({"ok", "failed"})
    \/ pc[r] = "released" /\ FetchRecords
    \/ pc[r] = "released" /\ DescribeRecords({"ok", "failed"})
    \/ pc[r] = "released" /\ FetchColumns
    \/ pc[r] = "released" /\ \E record_id \in 1..NumReq : DeleteRecord(record_id, {"ok", "failed"})
    \/ pc[r] = "released" /\ DeleteCommit({"ok", "failed"})
    \/ pc[r] = "released" /\ DeleteRespond
    \/ pc[r] = "released" /\ RecordsReturn

Spec == Init /\ [][Next]_vars

\* several requests in flight at once, with a few inputs each, and a request
\* on the stored records beside them
ConcInputs ==
  { [has_field |-> TRUE, files |-> <<File(<<"a",".","p","n","g">>, "bank_doc")>>],
    [has_field |-> TRUE, files |-> <<File(<<".",".","/","a",".","p","n","g">>, "id_doc")>>],
    [has_field |-> TRUE, files |-> <<File(<<"c",".","t","x","t">>, "bank_doc"), File(<<"b",".","P","D","F">>, "bank_doc2")>>] }

\* the reply of the model backend in these runs: a complete object
ConcOutcomes(svc) ==
  { [raised |-> FALSE, content |-> <<Doc(LlmObject(svc, Str(<<"R","a","v","i"," ","K","u","m","a","r">>)))>>] }

NextConc ==
  \E r \in Req :
    \/ Receive(r, ConcInputs)
    \/ SkipFile(r)
    \/ SaveImage(r)
    \/ ReadText(r)
    \/ CheckText(r)
    \/ CallModel(r, ConcOutcomes(service))
    \/ SkipModel(r)
    \/ Fallback(r)
    \/ Clean(r)
    \/ StoreExecute(r)
    \/ StoreCommit(r)
    \/ RemoveFile(r)
    \/ Respond(r)
    \/ GetAllRecords({"ok"})
    \/ FetchRecords
    \/ DescribeRecords({"ok"})
    \/ FetchColumns
    \/ DeleteRecord(1, {"ok"})
    \/ DeleteCommit({"ok"})
    \/ DeleteRespond

SpecConc == Init /\ [][NextConc]_vars

\* ------------------------------------------------------------------------
\* The text functions called directly: preprocess_bank_text,
\* extract_bank_data_locally (app.py) and extract_aadhaar_data_locally
\* (aadhar_app.py)
\* ------------------------------------------------------------------------

\* the pieces the texts are made of
Phrases ==
  { <<"I","F","S","C",":"," ","A","B","C","D","0","1","2","3","4","5","6">>,
    <<"W","X","Y","Z","0","6","5","4","3","2","1">>,
    <<"A","/","C",":"," ","1","2","3","4","5","6","7","8","9","0","1","2">>,
    <<"9","8","7","6","5","4","3","2","1","9","8","7">>,
    <<"P","A","N"," ","A","B","C","D","E","1","2","3","4","F">>,
    <<"F","G","H","I","J","5","6","7","8","K">>,
    <<"M","O","B","I","L","E"," ","9","8","7","6","5","4","3","2","1","0">>,
    <<"8","1","2","3","4","5","6","7","8","9">>,
    <<"1","2"," ","M","G"," ","R","O","A","D"," ","P","U","N","E">>,
    <<"A","d","d","r","e","s","s",":"," ","5"," ","H","i","l","l"," ","S","t">>,
    <<"R","A","M","E","S","H"," ","K","U","M","A","R"," ","S","/","O"," ","S","U","R","E","S","H"," ","K","U","M","A","R"," ","D","O","B"," ","0","1","/","0","1","/","1","9","9","0"," ","M","A","L","E"," ","1","2","3","4"," ","5","6","7","8"," ","9","0","1","2">>,
    <<"S","i","t","a"," ","D","e","v","i">>,
    <<"D","/","O"," ","R","a","v","i"," ","R","a","o">>,
    <<"h","e","l","l","o"," ","w","o","r","l","d">>,
    <<"S","T","A","T","E"," ","B","A","N","K"," ","O","F"," ","I","N","D","I","A">>,
    <<"a","b">> }

\* what separates two pieces: a space or a line break
Separators == {<<" ">>, <<"\n">>}

\* the most pieces in one text
MaxPhrases == 2

\* the texts the functions are called on
Texts ==
  {join(sep, ps) : sep \in Separators, ps \in SeqUpTo(Phrases, MaxPhrases) \ {<<>>}}

\* the handler's variables
handler ==
  <<service, client, db, uploads, table, pc, request, idx, combined_text,
    processed_files, llm_reply, extracted_data, response, llm_calls,
    local_runs, produced_by, stored, records>>

\* a process of either service, no request in flight, about to call one of
\* its text functions on a text
InitLocal ==
  /\ service \in {"bank", "aadhaar"}
  /\ client = FALSE
  /\ db = TRUE
  /\ uploads = [p \in Paths |-> NoFile]
  /\ table = EmptyTable(service, db)
  /\ pc = [r \in Req |-> "idle"]
  /\ request = [r \in Req |-> NoRequest]
  /\ idx = [r \in Req |-> 1]
  /\ combined_text = [r \in Req |-> <<>>]
  /\ processed_files = [r \in Req |-> <<>>]
  /\ llm_reply = [r \in Req |-> NoReply]
  /\ extracted_data = [r \in Req |-> None]
  /\ response = [r \in Req |-> NoResponse]
  /\ llm_calls = [r \in Req |-> 0]
  /\ local_runs = [r \in Req |-> 0]
  /\ produced_by = [r \in Req |-> "none"]
  /\ stored = [r \in Req |-> "no"]
  /\ call \in {[fn |-> "none", text |-> t, ret |-> None] : t \in Texts}
  /\ records = NoRecords

\* lines, clean_text = preprocess_bank_text(text)
CallPreprocess ==
  /\ service = "bank"
  /\ call.fn = "none"
  /\ call' = [call EXCEPT !.fn = "preprocess_bank_text",
                          !.ret = preprocess_bank_text(call.text)]
  /\ UNCHANGED handler

\* extract_bank_data_locally(text)
CallExtractBank ==
  /\ service = "bank"
  /\ call.fn = "none"
  /\ call' = [call EXCEPT !.fn = "extract_bank_data_locally",
                          !.ret = extract_bank_data_locally(call.text)]
  /\ UNCHANGED handler

\* extract_aadhaar_data_locally(text)
CallExtractAadhaar ==
  /\ service = "aadhaar"
  /\ call.fn = "none"
  /\ call' = [call EXCEPT !.fn = "extract_aadhaar_data_locally",
                          !.ret = extract_aadhaar_data_locally(call.text)]
  /\ UNCHANGED handler

NextLocal ==
  \/ CallPreprocess
  \/ CallExtractBank
  \/ CallExtractAadhaar

SpecLocal == InitLocal /\ [][NextLocal]_vars

\* ------------------------------------------------------------------------
\* Properties
\* ------------------------------------------------------------------------

\* the request ended with a success response
Succeeded(r) == pc[r] = "done" /\ response[r].status = 200

\* the reply's text, fences removed, is rejected by json.loads
IsNotJson(outcome) ==
  ~outcome.raised /\ ~loads(Unfenced(stripTokens(outcome.content))).ok

\* the reply parses as a JSON object
IsJsonObject(outcome) ==
  /\ ~outcome.raised
  /\ loads(Unfenced(stripTokens(outcome.content))).ok
  /\ loads(Unfenced(stripTokens(outcome.content))).value.t = "dict"

\* the value the reply parses to
ReplyValue(outcome) == loads(Unfenced(stripTokens(outcome.content))).value

\* the model attempt failed in the sense of the design: the backend raised
\* (ModelUnavailable), the reply is no JSON (MalformedResponse), or it is not
\* an object with exactly the declared fields (ContractViolation)
ModelFailed(svc, outcome) ==
  \/ outcome.raised
  \/ IsNotJson(outcome)
  \/ ~IsJsonObject(outcome)
  \/ DOMAIN ReplyValue(outcome).f # Fields[svc]

\* a text that is empty or white space only
IsBlank(text) == \A i \in 1..Len(text) : text[i] \in Spaces

\* C1: the record of every success response has exactly the declared fields
\* of the service's schema as its keys, whatever the model backend did.
C1_KeySetEqualsSchema ==
  \A r \in Req :
    Succeeded(r) =>
      /\ response[r].body.t = "dict"
      /\ DOMAIN response[r].body.f = Fields[service]

\* C2: when the model backend's reply does not parse as JSON, the request
\* succeeds and its record is, field by field, the record the rule-based
\* extractor returns on the same combined text.
C2_FallbackEqualsLocal ==
  \A r \in Req :
    (pc[r] = "done" /\ llm_calls[r] = 1 /\ IsNotJson(llm_reply[r])) =>
      response[r] = jsonify(extract_locally(service, combined_text[r]))

\* C2 witness: a request ended after a reply of prose followed by a JSON
\* document, which json.loads rejects.
C2_Witness ==
  \E r \in Req :
    /\ Succeeded(r)
    /\ llm_calls[r] = 1
    /\ IsNotJson(llm_reply[r])
    /\ \E i \in 1..Len(llm_reply[r].content) : llm_reply[r].content[i].k = "doc"

\* C3: when the reply parses as a JSON object whose key set differs from the
\* schema's field set, the returned record is the rule-based extractor's.
C3_ContractViolationFallsBack ==
  \A r \in Req :
    (/\ Succeeded(r)
     /\ llm_calls[r] = 1
     /\ IsJsonObject(llm_reply[r])
     /\ DOMAIN ReplyValue(llm_reply[r]).f # Fields[service]) =>
      response[r].body = extract_locally(service, combined_text[r])

\* C4: a request whose combined text is not blank ends with a success
\* response carrying a field record, whatever the model backend did.
C4_ModelNeverCausesServerFault ==
  \A r \in Req :
    (pc[r] = "done" /\ ~NoImages(request[r]) /\ ~IsBlank(combined_text[r])) =>
      /\ response[r].status = 200
      /\ response[r].body.t = "dict"

\* C5: every field value of a returned record is a string without leading or
\* trailing white space and is not empty.
C5_ValuesTrimmedAndNonEmpty ==
  \A r \in Req :
    Succeeded(r) =>
      /\ response[r].body.t = "dict"
      /\ \A k \in DOMAIN response[r].body.f :
           LET v == response[r].body.f[k]
           IN  /\ v.t = "str"
               /\ v.s # <<>>
               /\ strip(v.s) = v.s

\* C6: every success response carries a provenance tag, llm when the record
\* came from the model and local-fallback when it came from the rule-based
\* extractor.
C6_ProvenanceTag ==
  \A r \in Req :
    Succeeded(r) =>
      /\ response[r].body.t = "dict"
      /\ "provenance" \in DOMAIN response[r].body.f
      /\ response[r].body.f["provenance"] =
           (IF produced_by[r] = "llm" THEN Str(<<"l","l","m">>)
                                      ELSE Str(<<"l","o","c","a","l","-","f","a","l","l","b","a","c","k">>))

\* the record the request returns when nothing goes wrong in storage: the
\* model's value when it is truthy, else the rule-based extractor's, cleaned
\* by the bank service
RecordBeforeStorage(r) ==
  LET m == IF llm_calls[r] > 0 THEN ReplyValue(llm_reply[r]) ELSE None
      d == IF ~llm_reply[r].raised /\ Truthy(m)
             THEN m ELSE extract_locally(service, combined_text[r])
  IN  IF service = "bank"
        THEN Dict([k \in DOMAIN d.f |->
                     IF d.f[k].t = "str" /\ strip(d.f[k].s) # <<>> THEN Str(strip(d.f[k].s))
                     ELSE IF d.f[k].t = "str" THEN Str(NotAvailable)
                     ELSE d.f[k]])
        ELSE d

\* C7: a request whose insert failed, or was skipped for want of a database,
\* ends with a success response whose record is the one computed before the
\* insert, which is the record returned when the insert succeeds.
C7_StorageFailureKeepsRecord ==
  \A r \in Req :
    (pc[r] = "done" /\ stored[r] \in {"failed", "skipped"}) =>
      response[r] = jsonify(RecordBeforeStorage(r))

\* C7 witness: a request whose insert failed has ended.
C7_Witness ==
  \E r \in Req : pc[r] = "done" /\ stored[r] = "failed" /\ produced_by[r] = "llm"

\* C8: while a request's combined text is blank, the model backend has not
\* been called, the rule-based extractor has not run and nothing was stored
\* for it; and when it has ended, it ended with a 400 response.
C8_BlankTextIsClientFault ==
  \A r \in Req :
    IsBlank(combined_text[r]) =>
      /\ llm_calls[r] = 0
      /\ local_runs[r] = 0
      /\ stored[r] = "no"
      /\ pc[r] \notin {"model", "fallback", "clean", "store", "cleanup"}
      /\ pc[r] = "done" => response[r].status = 400

\* C8 witness: a request whose files were saved and read ended with white
\* space as its combined text.
C8_Witness ==
  \E r \in Req :
    /\ pc[r] = "done"
    /\ processed_files[r] # <<>>
    /\ combined_text[r] # <<>>
    /\ IsBlank(combined_text[r])

\* C9: a request calls the model backend at most once, and not at all
\* without a client; it runs the rule-based extractor at most once, only
\* when the model attempt was skipped or failed, and never when the record
\* it returns is the model's.
C9_SingleAttemptThenFallback ==
  \A r \in Req :
    /\ llm_calls[r] <= 1
    /\ ~client => llm_calls[r] = 0
    /\ local_runs[r] <= 1
    /\ local_runs[r] = 1 =>
         (llm_calls[r] = 0 \/ ModelFailed(service, llm_reply[r]))
    /\ (pc[r] \in {"clean", "store", "cleanup", "done"} /\ local_runs[r] = 1) =>
         produced_by[r] = "local"
    /\ (Succeeded(r) /\ response[r].body = ReplyValue(llm_reply[r])
          /\ llm_calls[r] = 1 /\ ~llm_reply[r].raised) =>
         local_runs[r] = 0

\* C9 witness: a request ended after one failed model attempt and one run of
\* the rule-based extractor.
C9_Witness ==
  \E r \in Req : Succeeded(r) /\ llm_calls[r] = 1 /\ local_runs[r] = 1

\* the combined text of a request whose files no other request touches
RECURSIVE AloneText(_, _)
AloneText(svc, files) ==
  IF files = <<>> THEN <<>>
  ELSE LET before == AloneText(svc, SubSeq(files, 1, Len(files) - 1))
           file   == files[Len(files)]
       IN  IF Accepted(svc, file) THEN AddText(before, readtext(file.image)) ELSE before

\* the response of a request running alone
AloneResponse(r) ==
  LET text == AloneText(service, request[r].files)
      m    == IF client /\ ~llm_reply[r].raised THEN ReplyValue(llm_reply[r]) ELSE None
      d    == IF Truthy(m) THEN m ELSE extract_locally(service, text)
  IN  IF NoImages(request[r])
        THEN ErrorResponse(400, IF request[r].has_field THEN "No images selected"
                                                        ELSE "No images uploaded")
      ELSE IF IsBlank(text)
        THEN ErrorResponse(400, "No text could be extracted from images")
      ELSE IF service = "bank" /\ d.t # "dict"
        THEN ServerError(NoAttribute(d, "items"))
      ELSE IF service = "bank" THEN jsonify(CleanData(d))
      ELSE jsonify(d)

\* C10: under any interleaving of concurrent requests, each request's
\* response is the one it produces running alone on its own files.
C10_RequestsIndependent ==
  \A r \in Req : pc[r] = "done" => response[r] = AloneResponse(r)

\* the pattern fields that have a bare-format pattern, with the key each
\* fills in the record
PatternKeys ==
  [ifsc_code |-> "ifsc_code", account_number |-> "account",
   pan_number |-> "pan_no", phone_number |-> "phone_number"]

\* the value after the field's keyword, "" when no keyword-anchored pattern
\* of the field matches
AnchoredValue(field, clean_text) ==
  FirstPattern(Tail(patterns[field]), clean_text, 1)

\* the tokens of the text that have the field's bare format
BareValues(field, clean_text) ==
  LET bare == Head(patterns[field])
  IN  {group(clean_text, [MatchAt(bare, 1, clean_text, p) EXCEPT !.start = p]) :
         p \in {q \in 1..Len(clean_text) : MatchAt(bare, 1, clean_text, q).end # -1}}

\* C11: in the bank rule-based extractor, when the text holds a
\* keyword-anchored value of a pattern field and a different token of the
\* field's bare format, the field's value is the keyword-anchored one,
\* whichever of the two comes first.
C11_AnchoredWins ==
  call.fn = "extract_bank_data_locally" =>
    \A field \in DOMAIN PatternKeys :
      LET clean_text == preprocess_clean(call.text)
          anchored   == AnchoredValue(field, clean_text)
      IN  (anchored # <<>> /\ \E b \in BareValues(field, clean_text) : b # anchored) =>
            call.ret.f[PatternKeys[field]] = Str(anchored)

\* the text holds none of the address-indicator keywords
NoAddressKeyword(text) == ~AnyIn(address_keywords, upper(text))

\* C12: for both schemas, when the text holds none of the address-indicator
\* keywords, the rule-based extractor's address is "Not Available".
C12_AddressKeywordGate ==
  (call.fn \in {"extract_bank_data_locally", "extract_aadhaar_data_locally"}
     /\ NoAddressKeyword(call.text)) =>
    call.ret.f["address"] = Str(NotAvailable)

\* the relation-indicator keywords
RelationIndicators == <<<<"S","/","O">>, <<"D","/","O">>, <<"W","/","O">>, <<"F","A","T","H","E","R">>, <<"H","U","S","B","A","N","D">>>>

\* the positions of the words that carry a relation indicator
RelationPositions(words) ==
  {i \in 1..Len(words) : AnyIn(RelationIndicators, upper(words[i]))}

\* C13: in the identity rule-based extractor, every word of the name is a
\* word of the text that stands before the first relation indicator: no
\* word that only appears after it is promoted into the name.
C13_NameBeforeRelation ==
  LET words == split(call.text)
      name  == split(call.ret.f["name"].s)
  IN  (call.fn = "extract_aadhaar_data_locally" /\ RelationPositions(words) # {}) =>
        \A k \in 1..Len(name) :
          \E j \in 1..(Min(RelationPositions(words)) - 1) : words[j] = name[k]

\* the keywords before a value in the patterns of app.py
field_labels ==
  <<<<"I","F","S","C">>, <<"I","F","S">>, <<"A","/","C">>, <<"A","C","C","O","U","N","T">>, <<"A","C","C">>, <<"P","A","N">>, <<"M","O","B","I","L","E">>, <<"P","H","O","N","E">>, <<"M","O","B">>, <<"C","I","F">>, <<"C","U","S","T","O","M","E","R">>, <<"I","D">>>>

\* the text holds no bank keyword, no field label and no token that any
\* pattern of the bank extractor matches
NoBankMarker(text) ==
  /\ ~AnyIn(bank_keywords \o skip_keywords \o branch_keywords \o address_keywords
              \o nominee_keywords \o field_labels, upper(text))
  /\ \A field \in DOMAIN patterns :
       FirstPattern(patterns[field], preprocess_clean(text), 1) = <<>>

\* C14: for a text that is not blank and holds no bank marker, the bank
\* rule-based extractor returns "Not Available" for all ten fields, the
\* holder name included.
C14_NoMarkerAllNotAvailable ==
  (call.fn = "extract_bank_data_locally" /\ ~IsBlank(call.text)
     /\ NoBankMarker(call.text)) =>
    /\ DOMAIN call.ret.f = Fields["bank"]
    /\ \A key \in DOMAIN call.ret.f : call.ret.f[key] = Str(NotAvailable)

\* C15: for a text of k lines separated by line breaks, each longer than 2
\* characters after trimming, preprocess_bank_text returns exactly k lines,
\* in the order of the text.
C15_OneLinePerLineBreak ==
  LET raw == splitOn(call.text, <<"\n">>)
  IN  (call.fn = "preprocess_bank_text"
         /\ \A i \in 1..Len(raw) : Len(strip(raw[i])) > 2) =>
        /\ Len(call.ret.lines) = Len(raw)
        /\ \A i \in 1..Len(raw) : call.ret.lines[i] = strip(preprocess_clean(raw[i]))

\* C16: when a request has ended, on any path, every file it saved into
\* the upload folder has been removed.
C16_UploadsRemoved ==
  \A r \in Req :
    pc[r] = "done" =>
      \A i \in 1..Len(processed_files[r]) : uploads[processed_files[r][i]] = NoFile

====
